---- MODULE Spec2Model ----
(***************************************************************************)
(* A model of rmq's Queue (queue.go): the ready and unacked lists of the   *)
(* backing store, the in-process delivery channel, the fetcher goroutine   *)
(* (consume), the consumer workers (addConsumer), PrepareConsumption,      *)
(* AddConsumer, ReturnUnackedDeliveries, CloseInConnection, Purge, Clear,  *)
(* ReadyCount, UnackedCount, GetConsumers, RemoveConsumer and              *)
(* RemoveAllConsumers.  Every store call is one atomic step; a goroutine's *)
(* local computation is merged into the store or channel operation that    *)
(* follows it.                                                             *)
(*                                                                         *)
(* Lists are sequences whose index 1 is the LEFT end (youngest) and whose  *)
(* last index is the RIGHT end (oldest), as in queue.go line 20.           *)
(***************************************************************************)
EXTENDS Integers, Sequences, FiniteSets, Bags, TLC

\* ------------------------------------------------------------------ bounds
MaxPublish == 3                \* publishes in the single-connection runs
MaxItems == 2                  \* publishes in the runs with repatriation
MaxErrors == 1
MaxReturns == 1

Conns == {"c1", "c2"}          \* connection names
Threads == {"t1", "t2"}        \* application threads that call PrepareConsumption
Cleaners == {"k1"}             \* callers of ReturnUnackedDeliveries
Payloads == {"a", "b"}
BufferSizes == {1, 2}          \* bufferSize arguments of PrepareConsumption
Tags == {"w1", "w2"}           \* consumer tags
Suffixes == {"x"}              \* outcomes of uniuri.NewLen(6)
QueueName == "things"          \* queue.name

NoChan == 0                    \* deliveryChan == nil
NoVal == "-"                   \* no payload held

VARIABLES
    ready,          \* rmq::queue::{q}::ready, a list
    unacked,        \* [Conns -> list]: rmq::connection::{c}::queue::{q}::unacked
    queuesKey,      \* [Conns -> store value]: rmq::connection::{c}::queues
    consumersKey,   \* [Conns -> set of names]: ...::queue::{q}::consumers
    deliveryChan,   \* [Conns -> channel id or NoChan]: Queue.deliveryChan
    chans,          \* sequence of channels made so far: [cap, buf]
    fetchers,       \* sequence of consume() goroutines: [conn, pc, val]
    workers,        \* sequence of addConsumer() goroutines
    prep,           \* [Conns \X Threads -> a PrepareConsumption call in progress]
    rud,            \* [Cleaners -> a ReturnUnackedDeliveries call in progress]
    published,      \* history: payloads in the order Publish succeeded
    delivered,      \* history: <<worker, payload>> in the order Consume was called
    prepResults,    \* history: [Conns -> how many PrepareConsumption calls returned
                    \*            true, and what the last call returned]
    stopped,        \* [Conns -> whether consuming was stopped on the queue, and how
                    \*            many payloads its unacked list held at that time]
    returns,        \* number of Reject and ReturnUnackedDeliveries calls so far
    result,         \* what the last call of Purge, Clear, ReadyCount, UnackedCount,
                    \* AddConsumer, GetConsumers, RemoveConsumer or
                    \* RemoveAllConsumers returned
    storeErrs       \* number of store calls that failed so far

storeVars == <<ready, unacked, queuesKey, consumersKey>>
procVars == <<deliveryChan, chans, fetchers, workers, prep>>
histVars == <<published, delivered, prepResults, returns, result>>
vars == <<ready, unacked, queuesKey, consumersKey, deliveryChan, chans, fetchers,
          workers, prep, rud, published, delivered, prepResults, stopped, returns,
          result, storeErrs>>

\* ------------------------------------------------------------ store model
\* A store call either succeeds, or fails with no effect on the store.
StoreCall(ok) ==
    /\ ok \in BOOLEAN
    /\ ~ok => storeErrs < MaxErrors
    /\ storeErrs' = IF ok THEN storeErrs ELSE storeErrs + 1

LPush(list, x) == <<x>> \o list
RPopRest(list) == SubSeq(list, 1, Len(list) - 1)
Rightmost(list) == list[Len(list)]

\* The value under a key that is used both as a set and as a list.
EmptyKey == [type |-> "none", members |-> {}, items |-> <<>>]

\* SADD key x: WRONGTYPE (an error, no effect) when the key holds a list.
SAddOk(v) == v.type # "list"
SAddVal(v, x) == [type |-> "set", members |-> v.members \cup {x}, items |-> <<>>]

\* (mutant) an LPUSH that replaces a set under the key by a list
LPushKeyValClobber(v, x) ==
    [type |-> "list", members |-> {}, items |-> LPush(v.items, x)]

\* LPUSH key x: WRONGTYPE (an error, no effect) when the key holds a set.
LPushKeyVal(v, x) ==
    IF v.type = "set" THEN v
    ELSE [type |-> "list", members |-> {}, items |-> LPush(v.items, x)]

SMembers(v) == IF v.type = "set" THEN v.members ELSE {}

\* ---------------------------------------------------------------- helpers
Count(s, x) == Cardinality({i \in DOMAIN s : s[i] = x})
Reverse(s) == [i \in 1..Len(s) |-> s[Len(s) + 1 - i]]
FetchersOf(c) == {f \in DOMAIN fetchers : fetchers[f].conn = c}
IsPrefix(s, t) == Len(s) <= Len(t) /\ \A i \in DOMAIN s : s[i] = t[i]
DeliveredPayloads == [i \in DOMAIN delivered |-> delivered[i][2]]
\* payloads a goroutine holds between two of its steps
HeldByFetchers(x) == Cardinality({f \in DOMAIN fetchers :
                                    fetchers[f].pc = "send" /\ fetchers[f].val = x})
HeldByWorkers(x) == Cardinality({w \in DOMAIN workers :
                                    workers[w].pc = "call" /\ workers[w].val = x})
Buffered(ch, x) == Count(chans[ch].buf, x)

\* ------------------------------------------------------------------- Init
IdlePrep == [pc |-> "idle", size |-> 0]
\* pc, conn, count (unackedCount), i, ret/err (the result) are the call's own;
\* snap/snapReady (the lists when the call began), moved (what it has pushed to
\* ready) and touched/rtouched (somebody else changed its unacked list / the
\* ready list since the call began) are history kept for the properties, and so
\* are at (for each payload the call pushed to ready, how many payloads are to
\* its right in the ready list now; Gone once it has left the ready list) and
\* retaken (the indices in moved of the payloads that were popped from ready
\* again, in the order of the pops).
IdleRud == [pc |-> "idle", conn |-> "c1", count |-> 0, i |-> 0, ret |-> 0, err |-> "nil",
            snap |-> <<>>, snapReady |-> <<>>, moved |-> <<>>,
            touched |-> FALSE, rtouched |-> FALSE, at |-> <<>>, retaken |-> <<>>]

\* op: the call; ok: a bool result; n: an int result; names: a []string result;
\* name: a string result (<<tag, suffix>> for tag-suffix, <<>> for "");
\* panicked: the call did not return but panicked.  History: err, the call's
\* store call failed; pubs, how many payloads had been published when Purge or
\* Clear was called.
NoResult == [op |-> "none", ok |-> FALSE, n |-> 0, names |-> {}, name |-> <<>>,
             panicked |-> FALSE, err |-> FALSE, pubs |-> 0]

Init ==
    /\ ready = <<>>
    /\ unacked = [c \in Conns |-> <<>>]
    /\ queuesKey = [c \in Conns |-> EmptyKey]
    /\ consumersKey = [c \in Conns |-> {}]
    /\ deliveryChan = [c \in Conns |-> NoChan]
    /\ chans = <<>>
    /\ fetchers = <<>>
    /\ workers = <<>>
    /\ prep = [ct \in Conns \X Threads |-> IdlePrep]
    /\ rud = [r \in Cleaners |-> IdleRud]
    /\ published = <<>>
    /\ delivered = <<>>
    /\ prepResults = [c \in Conns |-> [trues |-> 0, last |-> "none"]]
    /\ stopped = [c \in Conns |-> [on |-> FALSE, seen |-> 0]]
    /\ returns = 0
    /\ result = NoResult
    /\ storeErrs = 0

Gone == 0 - 1
\* a pop at the right end of ready: every payload still in the list has one
\* payload less to its right, and the one that had none has left the list
AfterPop(at) == [k \in DOMAIN at |-> IF at[k] = Gone THEN Gone ELSE at[k] - 1]
PoppedOf(at) == IF \E k \in DOMAIN at : at[k] = 0
                THEN <<CHOOSE k \in DOMAIN at : at[k] = 0>> ELSE <<>>

\* Actor `self` changes the unacked list of connection c (or of none, "-") and,
\* with rd, the ready list: every ReturnUnackedDeliveries call of somebody else
\* that has begun and not been handed back records it.
\* When self is a fetcher, the change of the ready list is a pop at its right
\* end; when self is a purger, the ready list is deleted.
Touch(c, self, rd) ==
    [r \in Cleaners |->
        IF r # self /\ rud[r].pc # "idle"
        THEN [rud[r] EXCEPT !.touched = @ \/ (rud[r].conn = c), !.rtouched = @ \/ rd,
                            !.at = IF self = "fetcher" THEN AfterPop(@)
                                   ELSE IF self = "purger" THEN [k \in DOMAIN @ |-> Gone]
                                   ELSE @,
                            !.retaken = IF self = "fetcher" THEN @ \o PoppedOf(rud[r].at)
                                        ELSE @]
        ELSE rud[r]]

\* (mutant) Publish pushes to the right end of ready
PublishRight(p, ok) ==
    /\ StoreCall(ok)
    /\ ready' = IF ok THEN Append(ready, p) ELSE ready
    /\ published' = IF ok THEN Append(published, p) ELSE published
    /\ rud' = IF ok THEN Touch("-", "publisher", TRUE) ELSE rud
    /\ UNCHANGED <<unacked, queuesKey, consumersKey, procVars, delivered,
                   prepResults, stopped, returns, result>>

\* ---------------------------------------------------------------- Publish
\* queue.redisClient.LPush(queue.readyKey, payload)
Publish(p, ok) ==
    /\ StoreCall(ok)
    /\ ready' = IF ok THEN LPush(ready, p) ELSE ready
    /\ published' = IF ok THEN Append(published, p) ELSE published
    /\ rud' = IF ok THEN Touch("-", "publisher", TRUE) ELSE rud
    /\ UNCHANGED <<unacked, queuesKey, consumersKey, procVars, delivered,
                   prepResults, stopped, returns, result>>

\* ------------------------------------------------------------------ Purge
\* (mutant) Purge returns whether the store call succeeded
PurgeReturnsOk(ok) ==
    /\ StoreCall(ok)
    /\ ready' = IF ok THEN <<>> ELSE ready
    /\ rud' = IF ok /\ ready # <<>> THEN Touch("-", "purger", TRUE) ELSE rud
    /\ result' = [NoResult EXCEPT !.op = "Purge", !.ok = ok,
                                  !.err = ~ok, !.pubs = Len(published)]
    /\ UNCHANGED <<unacked, queuesKey, consumersKey, procVars, published, delivered,
                   prepResults, returns, stopped>>

\* result := Del(queue.readyKey); on error return false; return result.Val() > 0
\* (Del returns the number of keys it removed; an empty list is no key)
Purge(ok) ==
    /\ StoreCall(ok)
    /\ ready' = IF ok THEN <<>> ELSE ready
    /\ rud' = IF ok /\ ready # <<>> THEN Touch("-", "purger", TRUE) ELSE rud
    /\ result' = [NoResult EXCEPT !.op = "Purge", !.ok = ok /\ ready # <<>>,
                                  !.err = ~ok, !.pubs = Len(published)]
    /\ UNCHANGED <<unacked, queuesKey, consumersKey, procVars, published, delivered,
                   prepResults, returns, stopped>>

\* ------------------------------------------------------------------ Clear
\* result := Del(queue.readyKey); on error return 0; return int(result.Val())
Clear(ok) ==
    /\ StoreCall(ok)
    /\ ready' = IF ok THEN <<>> ELSE ready
    /\ rud' = IF ok /\ ready # <<>> THEN Touch("-", "purger", TRUE) ELSE rud
    /\ result' = [NoResult EXCEPT !.op = "Clear", !.n = IF ok /\ ready # <<>> THEN 1 ELSE 0,
                                  !.err = ~ok, !.pubs = Len(published)]
    /\ UNCHANGED <<unacked, queuesKey, consumersKey, procVars, published, delivered,
                   prepResults, returns, stopped>>

\* -------------------------------------------------- ReadyCount, UnackedCount
\* (mutant) ReadyCount returns -1 when the store call fails
ReadyCountSurfaces(ok) ==
    /\ StoreCall(ok)
    /\ result' = [NoResult EXCEPT !.op = "ReadyCount",
                                  !.n = IF ok THEN Len(ready) ELSE Gone, !.err = ~ok]
    /\ UNCHANGED <<storeVars, procVars, rud, published, delivered, prepResults, returns,
                   stopped>>

\* result := LLen(queue.readyKey); on error log and return 0; return int(result.Val())
ReadyCount(ok) ==
    /\ StoreCall(ok)
    /\ result' = [NoResult EXCEPT !.op = "ReadyCount",
                                  !.n = IF ok THEN Len(ready) ELSE 0, !.err = ~ok]
    /\ UNCHANGED <<storeVars, procVars, rud, published, delivered, prepResults, returns,
                   stopped>>

\* result := LLen(queue.unackedKey); on error log and return 0; return int(result.Val())
UnackedCount(c, ok) ==
    /\ StoreCall(ok)
    /\ result' = [NoResult EXCEPT !.op = "UnackedCount",
                                  !.n = IF ok THEN Len(unacked[c]) ELSE 0, !.err = ~ok]
    /\ UNCHANGED <<storeVars, procVars, rud, published, delivered, prepResults, returns,
                   stopped>>

\* ------------------------------------------------------------ GetConsumers
\* result := SMembers(queue.consumersKey); on error log and return []string{}
GetConsumers(c, ok) ==
    /\ StoreCall(ok)
    /\ result' = [NoResult EXCEPT !.op = "GetConsumers",
                                  !.names = IF ok THEN consumersKey[c] ELSE {}, !.err = ~ok]
    /\ UNCHANGED <<storeVars, procVars, rud, published, delivered, prepResults, returns,
                   stopped>>

\* ---------------------------------------- RemoveConsumer, RemoveAllConsumers
\* result := SRem(queue.consumersKey, name); on error return false;
\* return result.Val() > 0
RemoveConsumer(c, name, ok) ==
    /\ StoreCall(ok)
    /\ consumersKey' = [consumersKey EXCEPT ![c] = IF ok THEN @ \ {name} ELSE @]
    /\ result' = [NoResult EXCEPT !.op = "RemoveConsumer",
                                  !.ok = ok /\ name \in consumersKey[c], !.err = ~ok]
    /\ UNCHANGED <<ready, unacked, queuesKey, procVars, rud, published, delivered,
                   prepResults, returns, stopped>>

\* result := Del(queue.consumersKey); on error return 0; return int(result.Val())
RemoveAllConsumers(c, ok) ==
    /\ StoreCall(ok)
    /\ consumersKey' = [consumersKey EXCEPT ![c] = IF ok THEN {} ELSE @]
    /\ result' = [NoResult EXCEPT !.op = "RemoveAllConsumers",
                                  !.n = IF ok /\ consumersKey[c] # {} THEN 1 ELSE 0,
                                  !.err = ~ok]
    /\ UNCHANGED <<ready, unacked, queuesKey, procVars, rud, published, delivered,
                   prepResults, returns, stopped>>

\* (mutant) PrepareConsumption without the deliveryChan != nil check
PrepareCallNoCheck(c, t, size) ==
    /\ prep[<<c, t>>].pc = "idle"
    /\ prep' = [prep EXCEPT ![<<c, t>>] = [pc |-> "sadd", size |-> size]]
    /\ UNCHANGED <<storeVars, deliveryChan, chans, fetchers, workers, rud, published,
                   delivered, prepResults, stopped, returns, storeErrs, result>>

\* ----------------------------------------------------- PrepareConsumption
\* if queue.deliveryChan != nil { return false }
PrepareCall(c, t, size) ==
    /\ prep[<<c, t>>].pc = "idle"
    /\ IF deliveryChan[c] # NoChan
       THEN /\ prepResults' = [prepResults EXCEPT ![c].last = "false"]
            /\ UNCHANGED prep
       ELSE /\ prep' = [prep EXCEPT ![<<c, t>>] = [pc |-> "sadd", size |-> size]]
            /\ UNCHANGED prepResults
    /\ UNCHANGED <<storeVars, deliveryChan, chans, fetchers, workers, rud, published,
                   delivered, stopped, returns, storeErrs, result>>

\* (mutant) the delivery channel is made before the SAdd, and stays when it fails
PrepareSAddChanFirst(c, t, ok) ==
    /\ prep[<<c, t>>].pc = "sadd"
    /\ StoreCall(ok)
    /\ IF ok /\ SAddOk(queuesKey[c])
       THEN /\ queuesKey' = [queuesKey EXCEPT ![c] = SAddVal(@, QueueName)]
            /\ chans' = Append(chans, [cap |-> prep[<<c, t>>].size, buf |-> <<>>])
            /\ deliveryChan' = [deliveryChan EXCEPT ![c] = Len(chans) + 1]
            /\ prep' = [prep EXCEPT ![<<c, t>>].pc = "lpush"]
            /\ UNCHANGED prepResults
       ELSE /\ prepResults' = [prepResults EXCEPT ![c].last = "false"]
            /\ prep' = [prep EXCEPT ![<<c, t>>] = IdlePrep]
            /\ chans' = Append(chans, [cap |-> prep[<<c, t>>].size, buf |-> <<>>])
            /\ deliveryChan' = [deliveryChan EXCEPT ![c] = Len(chans) + 1]
            /\ UNCHANGED queuesKey
    /\ UNCHANGED <<ready, unacked, consumersKey, fetchers, workers, rud, published,
                   delivered, stopped, returns, result>>

\* result := SAdd(queue.queuesKey, queue.name); on error return false;
\* queue.deliveryChan = make(chan Delivery, bufferSize)
PrepareSAdd(c, t, ok) ==
    /\ prep[<<c, t>>].pc = "sadd"
    /\ StoreCall(ok)
    /\ IF ok /\ SAddOk(queuesKey[c])
       THEN /\ queuesKey' = [queuesKey EXCEPT ![c] = SAddVal(@, QueueName)]
            /\ chans' = Append(chans, [cap |-> prep[<<c, t>>].size, buf |-> <<>>])
            /\ deliveryChan' = [deliveryChan EXCEPT ![c] = Len(chans) + 1]
            /\ prep' = [prep EXCEPT ![<<c, t>>].pc = "lpush"]
            /\ UNCHANGED prepResults
       ELSE /\ prepResults' = [prepResults EXCEPT ![c].last = "false"]
            /\ prep' = [prep EXCEPT ![<<c, t>>] = IdlePrep]
            /\ UNCHANGED <<queuesKey, chans, deliveryChan>>
    /\ UNCHANGED <<ready, unacked, consumersKey, fetchers, workers, rud, published,
                   delivered, stopped, returns, result>>

\* queue.redisClient.LPush(queue.queuesKey, queue.name) (result ignored);
\* go queue.consume(); return true
PrepareLPush(c, t, ok) ==
    /\ prep[<<c, t>>].pc = "lpush"
    /\ StoreCall(ok)
    /\ queuesKey' = [queuesKey EXCEPT ![c] = IF ok THEN LPushKeyVal(@, QueueName) ELSE @]
    /\ fetchers' = Append(fetchers, [conn |-> c, pc |-> "pop", val |-> NoVal])
    /\ prepResults' = [prepResults EXCEPT ![c].trues = @ + 1, ![c].last = "true"]
    /\ prep' = [prep EXCEPT ![<<c, t>>] = IdlePrep]
    /\ UNCHANGED <<ready, unacked, consumersKey, deliveryChan, chans, workers, rud,
                   published, delivered, stopped, returns, result>>

\* (mutant) the fetcher leaves its loop on a store error
ConsumePopExitOnError(f, ok) ==
    /\ f \in 1..Len(fetchers)
    /\ fetchers[f].pc = "pop"
    /\ StoreCall(ok)
    /\ IF ok
       THEN /\ ready # <<>>
            /\ ready' = RPopRest(ready)
            /\ unacked' = [unacked EXCEPT ![fetchers[f].conn] = LPush(@, Rightmost(ready))]
            /\ fetchers' = [fetchers EXCEPT ![f].pc = "send", ![f].val = Rightmost(ready)]
            /\ rud' = Touch(fetchers[f].conn, "fetcher", TRUE)
       ELSE /\ fetchers' = [fetchers EXCEPT ![f].pc = "exit"]
            /\ UNCHANGED <<ready, unacked, rud>>
    /\ UNCHANGED <<queuesKey, consumersKey, deliveryChan, chans, workers, prep,
                   histVars, stopped>>

\* (mutant) the fetcher pops from ready and pushes nothing to unacked
ConsumePopNoPush(f, ok) ==
    /\ f \in 1..Len(fetchers)
    /\ fetchers[f].pc = "pop"
    /\ StoreCall(ok)
    /\ IF ok
       THEN /\ ready # <<>>
            /\ ready' = RPopRest(ready)
            /\ fetchers' = [fetchers EXCEPT ![f].pc = "send", ![f].val = Rightmost(ready)]
            /\ rud' = Touch(fetchers[f].conn, "fetcher", TRUE)
            /\ UNCHANGED unacked
       ELSE UNCHANGED <<ready, unacked, fetchers, rud>>
    /\ UNCHANGED <<queuesKey, consumersKey, deliveryChan, chans, workers, prep,
                   histVars, stopped>>

\* (mutant) no `continue` after a store error: the fetcher goes on to the send
ConsumePopSendOnError(f, ok) ==
    /\ f \in 1..Len(fetchers)
    /\ fetchers[f].pc = "pop"
    /\ StoreCall(ok)
    /\ IF ok
       THEN /\ ready # <<>>
            /\ ready' = RPopRest(ready)
            /\ unacked' = [unacked EXCEPT ![fetchers[f].conn] = LPush(@, Rightmost(ready))]
            /\ fetchers' = [fetchers EXCEPT ![f].pc = "send", ![f].val = Rightmost(ready)]
            /\ rud' = Touch(fetchers[f].conn, "fetcher", TRUE)
       ELSE /\ fetchers' = [fetchers EXCEPT ![f].pc = "send"]
            /\ UNCHANGED <<ready, unacked, rud>>
    /\ UNCHANGED <<queuesKey, consumersKey, deliveryChan, chans, workers, prep,
                   histVars, stopped>>

\* ---------------------------------------------------------------- consume
\* result := BRPopLPush(queue.readyKey, queue.unackedKey, 0); on error: continue
ConsumePop(f, ok) ==
    /\ f \in 1..Len(fetchers)
    /\ fetchers[f].pc = "pop"
    /\ StoreCall(ok)
    /\ IF ok
       THEN /\ ready # <<>>                      \* blocks while ready is empty
            /\ ready' = RPopRest(ready)
            /\ unacked' = [unacked EXCEPT ![fetchers[f].conn] = LPush(@, Rightmost(ready))]
            /\ fetchers' = [fetchers EXCEPT ![f].pc = "send", ![f].val = Rightmost(ready)]
            /\ rud' = Touch(fetchers[f].conn, "fetcher", TRUE)
       ELSE UNCHANGED <<ready, unacked, fetchers, rud>>
    /\ UNCHANGED <<queuesKey, consumersKey, deliveryChan, chans, workers, prep,
                   histVars, stopped>>

\* (mutant) a send that never blocks
ConsumeSendUnbounded(f) ==
    /\ f \in 1..Len(fetchers)
    /\ fetchers[f].pc = "send"
    /\ chans' = [chans EXCEPT ![deliveryChan[fetchers[f].conn]].buf =
                                 Append(@, fetchers[f].val)]
    /\ fetchers' = [fetchers EXCEPT ![f].pc = "pop", ![f].val = NoVal]
    /\ UNCHANGED <<storeVars, deliveryChan, workers, prep, rud, histVars, stopped,
                   storeErrs>>

\* queue.deliveryChan <- newDelivery(result.Val(), ...): blocks while the buffer is full
ConsumeSend(f) ==
    /\ f \in 1..Len(fetchers)
    /\ fetchers[f].pc = "send"
    /\ LET ch == deliveryChan[fetchers[f].conn] IN
        /\ Len(chans[ch].buf) < chans[ch].cap
        /\ chans' = [chans EXCEPT ![ch].buf = Append(@, fetchers[f].val)]
    /\ fetchers' = [fetchers EXCEPT ![f].pc = "pop", ![f].val = NoVal]
    /\ UNCHANGED <<storeVars, deliveryChan, workers, prep, rud, histVars, stopped,
                   storeErrs>>

\* ------------------------------------------------------------ AddConsumer
\* (mutant) AddConsumer without the deliveryChan == nil check
AddConsumerNoCheck(c, tag, suffix, ok) ==
    /\ StoreCall(ok)
    /\ IF ok
       THEN /\ consumersKey' = [consumersKey EXCEPT ![c] = @ \cup {<<tag, suffix>>}]
            /\ workers' = Append(workers, [conn |-> c, ch |-> NoChan, pc |-> "start",
                                           val |-> NoVal, name |-> <<tag, suffix>>])
            /\ result' = [NoResult EXCEPT !.op = "AddConsumer", !.name = <<tag, suffix>>]
       ELSE /\ result' = [NoResult EXCEPT !.op = "AddConsumer", !.err = TRUE]
            /\ UNCHANGED <<consumersKey, workers>>
    /\ UNCHANGED <<ready, unacked, queuesKey, deliveryChan, chans, fetchers, prep, rud,
                   published, delivered, prepResults, returns, stopped>>

\* (mutant) the name is registered and no worker is started
AddConsumerNoWorker(c, tag, suffix, ok) ==
    IF deliveryChan[c] = NoChan
    THEN /\ result' = [NoResult EXCEPT !.op = "AddConsumer", !.panicked = TRUE]
         /\ UNCHANGED <<storeVars, procVars, rud, published, delivered, prepResults,
                        returns, stopped, storeErrs>>
    ELSE /\ StoreCall(ok)
         /\ IF ok
            THEN /\ consumersKey' = [consumersKey EXCEPT ![c] = @ \cup {<<tag, suffix>>}]
                 /\ result' = [NoResult EXCEPT !.op = "AddConsumer",
                                               !.name = <<tag, suffix>>]
            ELSE /\ result' = [NoResult EXCEPT !.op = "AddConsumer", !.err = TRUE]
                 /\ UNCHANGED consumersKey
         /\ UNCHANGED <<ready, unacked, queuesKey, deliveryChan, chans, fetchers, workers,
                        prep, rud, published, delivered, prepResults, returns, stopped>>

\* if queue.deliveryChan == nil { log.Panicf(...) };
\* name := tag-suffix; SAdd(queue.consumersKey, name); on error return "";
\* go queue.addConsumer(consumer); return name
AddConsumer(c, tag, suffix, ok) ==
    IF deliveryChan[c] = NoChan
    THEN /\ result' = [NoResult EXCEPT !.op = "AddConsumer", !.panicked = TRUE]
         /\ UNCHANGED <<storeVars, procVars, rud, published, delivered, prepResults,
                        returns, stopped, storeErrs>>
    ELSE /\ StoreCall(ok)
         /\ IF ok
            THEN /\ consumersKey' = [consumersKey EXCEPT ![c] = @ \cup {<<tag, suffix>>}]
                 /\ workers' = Append(workers, [conn |-> c, ch |-> NoChan, pc |-> "start",
                                                val |-> NoVal, name |-> <<tag, suffix>>])
                 /\ result' = [NoResult EXCEPT !.op = "AddConsumer",
                                               !.name = <<tag, suffix>>]
            ELSE /\ result' = [NoResult EXCEPT !.op = "AddConsumer", !.err = TRUE]
                 /\ UNCHANGED <<consumersKey, workers>>
         /\ UNCHANGED <<ready, unacked, queuesKey, deliveryChan, chans, fetchers, prep,
                        rud, published, delivered, prepResults, returns, stopped>>

\* the tag has not been given to AddConsumer with success before
TagUnused(tag) == \A w \in 1..Len(workers) : workers[w].name[1] # tag

\* ------------------------------------------------------------ addConsumer
\* for delivery := range queue.deliveryChan: the channel is read once
WorkerStart(w) ==
    /\ w \in 1..Len(workers)
    /\ workers[w].pc = "start"
    /\ workers' = [workers EXCEPT ![w].ch = deliveryChan[workers[w].conn], ![w].pc = "recv"]
    /\ UNCHANGED <<storeVars, deliveryChan, chans, fetchers, prep, rud, histVars,
                   stopped, storeErrs>>

\* (mutant) a receive that leaves the delivery in the channel
WorkerRecvNoDequeue(w) ==
    /\ w \in 1..Len(workers)
    /\ workers[w].pc = "recv"
    /\ chans[workers[w].ch].buf # <<>>
    /\ workers' = [workers EXCEPT ![w].val = Head(chans[workers[w].ch].buf),
                                  ![w].pc = "call"]
    /\ UNCHANGED <<storeVars, deliveryChan, chans, fetchers, prep, rud, histVars,
                   stopped, storeErrs>>

\* the receive of the range loop: blocks while the channel is empty
WorkerRecv(w) ==
    /\ w \in 1..Len(workers)
    /\ workers[w].pc = "recv"
    /\ LET ch == workers[w].ch IN
        /\ chans[ch].buf # <<>>
        /\ workers' = [workers EXCEPT ![w].val = Head(chans[ch].buf), ![w].pc = "call"]
        /\ chans' = [chans EXCEPT ![ch].buf = Tail(@)]
    /\ UNCHANGED <<storeVars, deliveryChan, fetchers, prep, rud, histVars, stopped,
                   storeErrs>>

\* consumer.Consume(delivery)
WorkerConsume(w) ==
    /\ w \in 1..Len(workers)
    /\ workers[w].pc = "call"
    /\ delivered' = Append(delivered, <<w, workers[w].val>>)
    /\ workers' = [workers EXCEPT ![w].pc = "handler"]
    /\ UNCHANGED <<storeVars, deliveryChan, chans, fetchers, prep, rud, published,
                   prepResults, stopped, returns, storeErrs, result>>

\* Consume returns without settling the delivery
HandlerReturn(w) ==
    /\ w \in 1..Len(workers)
    /\ workers[w].pc = "handler"
    /\ workers' = [workers EXCEPT ![w].pc = "recv", ![w].val = NoVal]
    /\ UNCHANGED <<storeVars, deliveryChan, chans, fetchers, prep, rud, histVars,
                   stopped, storeErrs>>

\* ----------------------------------------------------------------- Delivery
\* LREM key 1 x: the list without its first (leftmost) occurrence of x
LRemOne(list, x) ==
    IF Count(list, x) = 0 THEN list
    ELSE LET i == CHOOSE k \in DOMAIN list :
                     list[k] = x /\ \A j \in 1..(k - 1) : list[j] # x
         IN SubSeq(list, 1, i - 1) \o SubSeq(list, i + 1, Len(list))

\* the handler calls delivery.Ack() and returns: one occurrence of the payload
\* is removed from the unacked list it came from
HandlerAck(w, ok) ==
    /\ w \in 1..Len(workers)
    /\ workers[w].pc = "handler"
    /\ StoreCall(ok)
    /\ unacked' = [unacked EXCEPT ![workers[w].conn] =
                      IF ok THEN LRemOne(@, workers[w].val) ELSE @]
    /\ rud' = IF ok THEN Touch(workers[w].conn, "worker", FALSE) ELSE rud
    /\ workers' = [workers EXCEPT ![w].pc = "recv", ![w].val = NoVal]
    /\ UNCHANGED <<ready, queuesKey, consumersKey, deliveryChan, chans, fetchers, prep,
                   histVars, stopped>>

\* the handler calls delivery.Reject(): first the payload is pushed back to ready
\* (on a store error Reject fails and the handler returns) ...
HandlerRejectPush(w, ok) ==
    /\ w \in 1..Len(workers)
    /\ workers[w].pc = "handler"
    /\ returns < MaxReturns
    /\ returns' = returns + 1
    /\ StoreCall(ok)
    /\ ready' = IF ok THEN LPush(ready, workers[w].val) ELSE ready
    /\ rud' = IF ok THEN Touch("-", "worker", TRUE) ELSE rud
    /\ workers' = [workers EXCEPT ![w].pc = IF ok THEN "rejecting" ELSE "recv",
                                  ![w].val = IF ok THEN @ ELSE NoVal]
    /\ UNCHANGED <<unacked, queuesKey, consumersKey, deliveryChan, chans, fetchers, prep,
                   published, delivered, prepResults, stopped, result>>

\* ... then it is removed from unacked, and the handler returns
HandlerRejectRem(w, ok) ==
    /\ w \in 1..Len(workers)
    /\ workers[w].pc = "rejecting"
    /\ StoreCall(ok)
    /\ unacked' = [unacked EXCEPT ![workers[w].conn] =
                      IF ok THEN LRemOne(@, workers[w].val) ELSE @]
    /\ rud' = IF ok THEN Touch(workers[w].conn, "worker", FALSE) ELSE rud
    /\ workers' = [workers EXCEPT ![w].pc = "recv", ![w].val = NoVal]
    /\ UNCHANGED <<ready, queuesKey, consumersKey, deliveryChan, chans, fetchers, prep,
                   histVars, stopped>>

\* ------------------------------------------------ ReturnUnackedDeliveries
\* result := LLen(queue.unackedKey); unackedCount := int(result.Val())
RudStart(r, c, ok) ==
    /\ rud[r].pc = "idle"
    /\ returns < MaxReturns
    /\ returns' = returns + 1
    /\ StoreCall(ok)
    /\ rud' = [rud EXCEPT ![r] =
          IF ok
          THEN [IdleRud EXCEPT !.pc = IF Len(unacked[c]) = 0 THEN "check" ELSE "move",
                               !.conn = c, !.count = Len(unacked[c]),
                               !.snap = unacked[c], !.snapReady = ready]
          ELSE [IdleRud EXCEPT !.pc = "done", !.conn = c, !.err = "store",
                               !.snap = unacked[c], !.snapReady = ready]]
    /\ UNCHANGED <<storeVars, procVars, published, delivered, prepResults, stopped,
                   result>>

\* (mutant) the move takes the youngest (leftmost) unacked payload
RudMoveLeftmost(r, ok) ==
    /\ rud[r].pc = "move"
    /\ StoreCall(ok)
    /\ LET c == rud[r].conn IN
       IF ok
       THEN /\ unacked[c] # <<>>
            /\ unacked' = [unacked EXCEPT ![c] = Tail(@)]
            /\ ready' = LPush(ready, Head(unacked[c]))
            /\ rud' = [Touch(c, r, TRUE) EXCEPT
                          ![r].i = @ + 1,
                          ![r].moved = Append(@, Head(unacked[c])),
                          ![r].at = Append(@, Len(ready)),
                          ![r].pc = IF rud[r].i + 1 < rud[r].count THEN "move" ELSE "check"]
       ELSE /\ rud' = [rud EXCEPT ![r].pc = "done", ![r].ret = 0, ![r].err = "store"]
            /\ UNCHANGED <<ready, unacked>>
    /\ UNCHANGED <<queuesKey, consumersKey, procVars, histVars, stopped>>

\* (mutant) the move pushes the payload to the right end of ready
RudMovePushRight(r, ok) ==
    /\ rud[r].pc = "move"
    /\ StoreCall(ok)
    /\ LET c == rud[r].conn IN
       IF ok
       THEN /\ unacked[c] # <<>>
            /\ unacked' = [unacked EXCEPT ![c] = RPopRest(@)]
            /\ ready' = Append(ready, Rightmost(unacked[c]))
            /\ rud' = [Touch(c, r, TRUE) EXCEPT
                          ![r].i = @ + 1,
                          ![r].moved = Append(@, Rightmost(unacked[c])),
                          ![r].at = Append([k \in DOMAIN @ |->
                                              IF @[k] = Gone THEN Gone ELSE @[k] + 1], 0),
                          ![r].pc = IF rud[r].i + 1 < rud[r].count THEN "move" ELSE "check"]
       ELSE /\ rud' = [rud EXCEPT ![r].pc = "done", ![r].ret = 0, ![r].err = "store"]
            /\ UNCHANGED <<ready, unacked>>
    /\ UNCHANGED <<queuesKey, consumersKey, procVars, histVars, stopped>>

\* for i := 0; i < unackedCount; i++ { BRPopLPush(unackedKey, readyKey, 0) }
RudMove(r, ok) ==
    /\ rud[r].pc = "move"
    /\ StoreCall(ok)
    /\ LET c == rud[r].conn IN
       IF ok
       THEN /\ unacked[c] # <<>>                 \* blocks while unacked is empty
            /\ unacked' = [unacked EXCEPT ![c] = RPopRest(@)]
            /\ ready' = LPush(ready, Rightmost(unacked[c]))
            /\ rud' = [Touch(c, r, TRUE) EXCEPT
                          ![r].i = @ + 1,
                          ![r].moved = Append(@, Rightmost(unacked[c])),
                          ![r].at = Append(@, Len(ready)),
                          ![r].pc = IF rud[r].i + 1 < rud[r].count THEN "move" ELSE "check"]
       ELSE /\ rud' = [rud EXCEPT ![r].pc = "done", ![r].ret = 0, ![r].err = "store"]
            /\ UNCHANGED <<ready, unacked>>
    /\ UNCHANGED <<queuesKey, consumersKey, procVars, histVars, stopped>>

\* (mutant) no consistency check after the final LLen
RudCheckNoVerify(r, ok) ==
    /\ rud[r].pc = "check"
    /\ StoreCall(ok)
    /\ rud' = [rud EXCEPT ![r].pc = "done",
                          ![r].ret = IF ok THEN rud[r].count ELSE 0,
                          ![r].err = IF ~ok THEN "store" ELSE "nil"]
    /\ UNCHANGED <<storeVars, procVars, histVars, stopped>>

\* result = LLen(queue.unackedKey); if result.Val() != 0: consistency error
RudCheck(r, ok) ==
    /\ rud[r].pc = "check"
    /\ StoreCall(ok)
    /\ rud' = [rud EXCEPT ![r].pc = "done",
                          ![r].ret = IF ok /\ Len(unacked[rud[r].conn]) = 0
                                     THEN rud[r].count ELSE 0,
                          ![r].err = IF ~ok THEN "store"
                                     ELSE IF Len(unacked[rud[r].conn]) # 0
                                          THEN "consistency" ELSE "nil"]
    /\ UNCHANGED <<storeVars, procVars, histVars, stopped>>

\* the call has returned (returned, err); the caller may call again
RudReturn(r) ==
    /\ rud[r].pc = "done"
    /\ rud' = [rud EXCEPT ![r] = IdleRud]
    /\ UNCHANGED <<storeVars, procVars, histVars, stopped, storeErrs>>

\* ------------------------------------------------------ CloseInConnection
\* the cleaner, after ReturnUnackedDeliveries returned no error:
\* queue.redisClient.Del(queue.unackedKey)
CloseInConnection(r, ok) ==
    /\ rud[r].pc = "done"
    /\ rud[r].err = "nil"
    /\ StoreCall(ok)
    /\ unacked' = [unacked EXCEPT ![rud[r].conn] = IF ok THEN <<>> ELSE @]
    /\ rud' = [(IF ok THEN Touch(rud[r].conn, r, FALSE) ELSE rud) EXCEPT ![r] = IdleRud]
    /\ UNCHANGED <<ready, queuesKey, consumersKey, procVars, histVars, stopped>>

\* another actor (a second cleaner, the connection's own shutdown) closes the
\* queue in connection c at any time: queue.redisClient.Del(queue.unackedKey)
CloseInConnectionNow(c, ok) ==
    /\ StoreCall(ok)
    /\ unacked' = [unacked EXCEPT ![c] = IF ok THEN <<>> ELSE @]
    /\ rud' = IF ok /\ unacked[c] # <<>> THEN Touch(c, "closer", FALSE) ELSE rud
    /\ UNCHANGED <<ready, queuesKey, consumersKey, procVars, histVars, stopped>>

\* ----------------------------------------------------------- StopConsuming
\* consuming is stopped on connection c's queue; consume() reads no stop signal
StopConsuming(c) ==
    /\ deliveryChan[c] # NoChan
    /\ ~stopped[c].on
    /\ stopped' = [stopped EXCEPT ![c] = [on |-> TRUE, seen |-> Len(unacked[c])]]
    /\ UNCHANGED <<storeVars, procVars, rud, histVars, storeErrs>>

\* ------------------------------------------------------------------- Next
\* Publish, the fetchers of two connections, and ReturnUnackedDeliveries on
\* either connection; no Ack, Reject, Purge, Clear or
\* CloseInConnection.
Next ==
    \/ \E p \in Payloads, ok \in BOOLEAN : Len(published) < MaxItems /\ Publish(p, ok)
    \/ \E c \in Conns : deliveryChan[c] = NoChan /\ PrepareCall(c, "t1", 1)
    \/ \E c \in Conns, ok \in BOOLEAN : PrepareSAdd(c, "t1", ok)
    \/ \E c \in Conns, ok \in BOOLEAN : PrepareLPush(c, "t1", ok)
    \/ \E f \in 1..Len(fetchers), ok \in BOOLEAN : ConsumePop(f, ok)
    \/ \E f \in 1..Len(fetchers) : ConsumeSend(f)
    \/ \E r \in Cleaners, c \in Conns, ok \in BOOLEAN : RudStart(r, c, ok)
    \/ \E r \in Cleaners, ok \in BOOLEAN : RudMove(r, ok)
    \/ \E r \in Cleaners, ok \in BOOLEAN : RudCheck(r, ok)
    \/ \E r \in Cleaners : RudReturn(r)

Spec == Init /\ [][Next]_vars

\* The cleaner sweeps connection c1 (ReturnUnackedDeliveries, then
\* CloseInConnection) while c1 is alive and its fetcher keeps running.
NextSweep ==
    \/ \E p \in Payloads, ok \in BOOLEAN : Len(published) < MaxItems /\ Publish(p, ok)
    \/ deliveryChan["c1"] = NoChan /\ PrepareCall("c1", "t1", 1)
    \/ \E ok \in BOOLEAN : PrepareSAdd("c1", "t1", ok)
    \/ \E ok \in BOOLEAN : PrepareLPush("c1", "t1", ok)
    \/ \E f \in 1..Len(fetchers), ok \in BOOLEAN : ConsumePop(f, ok)
    \/ \E f \in 1..Len(fetchers) : ConsumeSend(f)
    \/ \E r \in Cleaners, ok \in BOOLEAN : RudStart(r, "c1", ok)
    \/ \E r \in Cleaners, ok \in BOOLEAN : RudMove(r, ok)
    \/ \E r \in Cleaners, ok \in BOOLEAN : RudCheck(r, ok)
    \/ \E r \in Cleaners : rud[r].err # "nil" /\ RudReturn(r)
    \/ \E r \in Cleaners, ok \in BOOLEAN : CloseInConnection(r, ok)

SpecSweep == Init /\ [][NextSweep]_vars

\* Consuming is stopped on connection c1's queue while payloads are published.
NextStop ==
    \/ \E p \in Payloads, ok \in BOOLEAN : Len(published) < MaxPublish /\ Publish(p, ok)
    \/ \E size \in BufferSizes : PrepareCall("c1", "t1", size)
    \/ \E ok \in BOOLEAN : PrepareSAdd("c1", "t1", ok)
    \/ \E ok \in BOOLEAN : PrepareLPush("c1", "t1", ok)
    \/ \E f \in 1..Len(fetchers), ok \in BOOLEAN : ConsumePop(f, ok)
    \/ \E f \in 1..Len(fetchers) : ConsumeSend(f)
    \/ StopConsuming("c1")

SpecStop == Init /\ [][NextStop]_vars

\* One connection consuming: PrepareConsumption, AddConsumer, the fetcher, workers.
NextConsume ==
    \/ \E p \in Payloads, ok \in BOOLEAN : Len(published) < MaxPublish /\ Publish(p, ok)
    \/ \E size \in BufferSizes : PrepareCall("c1", "t1", size)
    \/ \E ok \in BOOLEAN : PrepareSAdd("c1", "t1", ok)
    \/ \E ok \in BOOLEAN : PrepareLPush("c1", "t1", ok)
    \/ \E f \in 1..Len(fetchers), ok \in BOOLEAN : ConsumePop(f, ok)
    \/ \E f \in 1..Len(fetchers) : ConsumeSend(f)
    \/ \E tag \in Tags, sfx \in Suffixes, ok \in BOOLEAN :
          TagUnused(tag) /\ AddConsumer("c1", tag, sfx, ok)
    \/ \E w \in 1..Len(workers) : WorkerStart(w)
    \/ \E w \in 1..Len(workers) : WorkerRecv(w)
    \/ \E w \in 1..Len(workers) : WorkerConsume(w)
    \/ \E w \in 1..Len(workers) : HandlerReturn(w)

SpecConsume == Init /\ [][NextConsume]_vars

\* One connection consuming, every handler acks or rejects its delivery and
\* returns.  Goroutines are scheduled fairly and a store call that is retried
\* for ever eventually succeeds.
NextSettle ==
    \/ \E p \in Payloads, ok \in BOOLEAN : Len(published) < MaxItems /\ Publish(p, ok)
    \/ deliveryChan["c1"] = NoChan /\ PrepareCall("c1", "t1", 1)
    \/ \E ok \in BOOLEAN : PrepareSAdd("c1", "t1", ok)
    \/ \E ok \in BOOLEAN : PrepareLPush("c1", "t1", ok)
    \/ \E f \in 1..Len(fetchers), ok \in BOOLEAN : ConsumePop(f, ok)
    \/ \E f \in 1..Len(fetchers) : ConsumeSend(f)
    \/ \E ok \in BOOLEAN : TagUnused("w1") /\ AddConsumer("c1", "w1", "x", ok)
    \/ \E w \in 1..Len(workers) : WorkerStart(w)
    \/ \E w \in 1..Len(workers) : WorkerRecv(w)
    \/ \E w \in 1..Len(workers) : WorkerConsume(w)
    \/ \E w \in 1..Len(workers), ok \in BOOLEAN : HandlerAck(w, ok)
    \/ \E w \in 1..Len(workers), ok \in BOOLEAN : HandlerRejectPush(w, ok)
    \/ \E w \in 1..Len(workers), ok \in BOOLEAN : HandlerRejectRem(w, ok)

FairSettle ==
    /\ WF_vars(\E ok \in BOOLEAN : PrepareSAdd("c1", "t1", ok))
    /\ WF_vars(\E ok \in BOOLEAN : PrepareLPush("c1", "t1", ok))
    /\ WF_vars(ConsumePop(1, TRUE))
    /\ WF_vars(ConsumeSend(1))
    /\ WF_vars(WorkerStart(1))
    /\ WF_vars(WorkerRecv(1))
    /\ WF_vars(WorkerConsume(1))
    /\ WF_vars(\E ok \in BOOLEAN : HandlerAck(1, ok) \/ HandlerRejectRem(1, ok))

SpecSettle == Init /\ [][NextSettle]_vars /\ FairSettle

\* One connection with its fetcher and consumers, and the calls that purge and
\* observe the queue: Purge, Clear, ReadyCount, UnackedCount, GetConsumers.
\* No repatriation and no Reject: only Publish adds to the ready list.
NextObserve ==
    \/ \E p \in Payloads, ok \in BOOLEAN : Len(published) < MaxPublish /\ Publish(p, ok)
    \/ deliveryChan["c1"] = NoChan /\ PrepareCall("c1", "t1", 1)
    \/ \E ok \in BOOLEAN : PrepareSAdd("c1", "t1", ok)
    \/ \E ok \in BOOLEAN : PrepareLPush("c1", "t1", ok)
    \/ \E f \in 1..Len(fetchers), ok \in BOOLEAN : ConsumePop(f, ok)
    \/ \E f \in 1..Len(fetchers) : ConsumeSend(f)
    \/ \E tag \in Tags, sfx \in Suffixes, ok \in BOOLEAN :
          deliveryChan["c1"] # NoChan /\ TagUnused(tag) /\ AddConsumer("c1", tag, sfx, ok)
    \/ \E ok \in BOOLEAN : Purge(ok)
    \/ \E ok \in BOOLEAN : Clear(ok)
    \/ \E ok \in BOOLEAN : ReadyCount(ok)
    \/ \E ok \in BOOLEAN : UnackedCount("c1", ok)
    \/ \E ok \in BOOLEAN : GetConsumers("c1", ok)

SpecObserve == Init /\ [][NextObserve]_vars

\* One connection whose consumers are added and removed: PrepareConsumption and
\* AddConsumer in any order, RemoveConsumer, RemoveAllConsumers, GetConsumers,
\* and the start of the workers; nothing is published.  uniuri may give the
\* same suffix twice: a name is given at most to two workers.
NextMembers ==
    \/ \E size \in BufferSizes : PrepareCall("c1", "t1", size)
    \/ \E ok \in BOOLEAN : PrepareSAdd("c1", "t1", ok)
    \/ \E ok \in BOOLEAN : PrepareLPush("c1", "t1", ok)
    \/ \E tag \in Tags, sfx \in Suffixes, ok \in BOOLEAN :
          /\ Cardinality({w \in DOMAIN workers : workers[w].name = <<tag, sfx>>}) <= 1
          /\ AddConsumer("c1", tag, sfx, ok)
    \/ \E tag \in Tags, sfx \in Suffixes, ok \in BOOLEAN :
          RemoveConsumer("c1", <<tag, sfx>>, ok)
    \/ \E ok \in BOOLEAN : RemoveAllConsumers("c1", ok)
    \/ \E ok \in BOOLEAN : GetConsumers("c1", ok)
    \/ \E w \in 1..Len(workers) : WorkerStart(w)

SpecMembers == Init /\ [][NextMembers]_vars

\* ReturnUnackedDeliveries on connection c1 while another actor deletes c1's
\* unacked key.  Goroutines are scheduled fairly and a store call that does not
\* block returns; nobody is obliged to publish.
NextShrink ==
    \/ \E p \in Payloads, ok \in BOOLEAN : Len(published) < MaxItems /\ Publish(p, ok)
    \/ deliveryChan["c1"] = NoChan /\ PrepareCall("c1", "t1", 1)
    \/ \E ok \in BOOLEAN : PrepareSAdd("c1", "t1", ok)
    \/ \E ok \in BOOLEAN : PrepareLPush("c1", "t1", ok)
    \/ \E f \in 1..Len(fetchers), ok \in BOOLEAN : ConsumePop(f, ok)
    \/ \E f \in 1..Len(fetchers) : ConsumeSend(f)
    \/ \E r \in Cleaners, ok \in BOOLEAN : RudStart(r, "c1", ok)
    \/ \E r \in Cleaners, ok \in BOOLEAN : RudMove(r, ok)
    \/ \E r \in Cleaners, ok \in BOOLEAN : RudCheck(r, ok)
    \/ \E r \in Cleaners : RudReturn(r)
    \/ \E ok \in BOOLEAN : CloseInConnectionNow("c1", ok)

FairShrink ==
    /\ WF_vars(\E ok \in BOOLEAN : PrepareSAdd("c1", "t1", ok))
    /\ WF_vars(\E ok \in BOOLEAN : PrepareLPush("c1", "t1", ok))
    /\ WF_vars(ConsumePop(1, TRUE))
    /\ WF_vars(ConsumeSend(1))
    /\ \A r \in Cleaners :
          /\ WF_vars(RudMove(r, TRUE))
          /\ WF_vars(\E ok \in BOOLEAN : RudCheck(r, ok))

SpecShrink == Init /\ [][NextShrink]_vars /\ FairShrink

\* Two threads call PrepareConsumption on the same queue handle of connection
\* c1, with no lock: their steps interleave in every order, which covers every
\* outcome of the unsynchronised accesses to queue.deliveryChan.
NextRace ==
    \/ \E p \in Payloads, ok \in BOOLEAN : Len(published) < MaxItems /\ Publish(p, ok)
    \/ \E t \in Threads : PrepareCall("c1", t, 1)
    \/ \E t \in Threads, ok \in BOOLEAN : PrepareSAdd("c1", t, ok)
    \/ \E t \in Threads, ok \in BOOLEAN : PrepareLPush("c1", t, ok)
    \/ \E f \in 1..Len(fetchers), ok \in BOOLEAN : ConsumePop(f, ok)
    \/ \E f \in 1..Len(fetchers) : ConsumeSend(f)
    \/ \E ok \in BOOLEAN :
          deliveryChan["c1"] # NoChan /\ TagUnused("w1") /\ AddConsumer("c1", "w1", "x", ok)
    \/ \E w \in 1..Len(workers) : WorkerStart(w)
    \/ \E w \in 1..Len(workers) : WorkerRecv(w)
    \/ \E w \in 1..Len(workers) : WorkerConsume(w)
    \/ \E w \in 1..Len(workers) : HandlerReturn(w)

SpecRace == Init /\ [][NextRace]_vars

\* One connection consuming through one consumer while the store fails under
\* the fetcher: only the fetcher's pop-push may fail.
NextRetry ==
    \/ \E p \in Payloads : Len(published) < MaxItems /\ Publish(p, TRUE)
    \/ deliveryChan["c1"] = NoChan /\ PrepareCall("c1", "t1", 1)
    \/ PrepareSAdd("c1", "t1", TRUE)
    \/ PrepareLPush("c1", "t1", TRUE)
    \/ \E f \in 1..Len(fetchers), ok \in BOOLEAN : ConsumePop(f, ok)
    \/ \E f \in 1..Len(fetchers) : ConsumeSend(f)
    \/ TagUnused("w1") /\ AddConsumer("c1", "w1", "x", TRUE)
    \/ \E w \in 1..Len(workers) : WorkerStart(w)
    \/ \E w \in 1..Len(workers) : WorkerRecv(w)
    \/ \E w \in 1..Len(workers) : WorkerConsume(w)
    \/ \E w \in 1..Len(workers) : HandlerReturn(w)

SpecRetry == Init /\ [][NextRetry]_vars

\* ================================================================== claims

\* C1: no loss.  Once a consumer has been added to the prepared queue, every
\* payload that Publish has stored is eventually passed to Consume: for every
\* payload x, Consume is eventually called with x at least as many times as x
\* was published.
NoLoss ==
    \A x \in Payloads : \A n \in 1..MaxItems :
        (Len(workers) >= 1 /\ Count(published, x) >= n)
            ~> (Count(DeliveredPayloads, x) >= n)

NoLossWitness ==
    /\ Len(workers) >= 1
    /\ Len(published) = MaxItems
    /\ returns = MaxReturns
    /\ \A x \in Payloads : Count(DeliveredPayloads, x) >= Count(published, x)
    /\ \E x \in Payloads : Count(DeliveredPayloads, x) > Count(published, x)

\* C2: conservation.  With Publish, the fetchers and ReturnUnackedDeliveries
\* only, every payload occurs in the ready list and the unacked lists together
\* exactly as often as it was published: no step of a move leaves it in neither
\* list or in two.
Conservation ==
    \A x \in Payloads :
        Count(published, x)
           = Count(ready, x) + Count(unacked["c1"], x) + Count(unacked["c2"], x)

ConservationWitness ==
    /\ Len(published) = MaxItems
    /\ unacked["c2"] # <<>>
    /\ \E r \in Cleaners : rud[r].conn = "c1" /\ rud[r].moved # <<>>
    /\ ready # <<>>

\* C3 (as claimed): crash recovery.  A ReturnUnackedDeliveries call on an
\* unacked list of M payloads that nobody else touches returns (M, no error),
\* has pushed exactly those M payloads to ready, and leaves unacked empty.
RecoveryAsClaimed ==
    \A r \in Cleaners :
        (rud[r].pc = "done" /\ ~rud[r].touched) =>
            /\ rud[r].err = "nil"
            /\ rud[r].ret = Len(rud[r].snap)
            /\ unacked[rud[r].conn] = <<>>
            /\ rud[r].moved = Reverse(rud[r].snap)

\* C3 (amended): the same, provided none of the call's own store calls fails.
\* Then the payloads are pushed oldest first, so that, when nobody else changed
\* the ready list either, ready is the old unacked list followed by the old
\* ready list.
RecoveryAmended ==
    \A r \in Cleaners :
        (rud[r].pc = "done" /\ ~rud[r].touched /\ rud[r].err # "store") =>
            /\ rud[r].err = "nil"
            /\ rud[r].ret = Len(rud[r].snap)
            /\ unacked[rud[r].conn] = <<>>
            /\ rud[r].moved = Reverse(rud[r].snap)
            /\ ~rud[r].rtouched => ready = rud[r].snap \o rud[r].snapReady

RecoveryWitness ==
    \E r \in Cleaners :
        /\ rud[r].pc = "done"
        /\ ~rud[r].touched
        /\ ~rud[r].rtouched
        /\ rud[r].err = "nil"
        /\ rud[r].ret = 2
        /\ rud[r].snap[1] # rud[r].snap[2]

\* C4 (as claimed): sweeping a connection that is still alive loses nothing:
\* with no acknowledgement, every published payload is still in the ready list
\* or in an unacked list.
SweepLosesNothing ==
    \A x \in Payloads :
        Count(published, x)
           <= Count(ready, x) + Count(unacked["c1"], x) + Count(unacked["c2"], x)

\* C8 (as claimed): once consuming is stopped the fetcher exits: it completes
\* at most the one pop-push it was blocked in and moves nothing after that.
StopEndsFetcher ==
    stopped["c1"].on => Len(unacked["c1"]) <= stopped["c1"].seen + 1

\* C9: PrepareConsumption refuses when already prepared.  A handle never has
\* more than one successful call, one channel and one fetcher; and once a call
\* has returned true, no later call returns true, replaces the delivery channel,
\* makes a channel or starts a fetcher.
PrepareOnce ==
    /\ [](\A c \in Conns :
            /\ prepResults[c].trues <= 1
            /\ Cardinality(FetchersOf(c)) = prepResults[c].trues)
    /\ [][\A c \in Conns :
            prepResults[c].trues = 1 =>
                /\ prepResults'[c].trues = 1
                /\ deliveryChan'[c] = deliveryChan[c]
                /\ Len(chans') = Len(chans)
                /\ FetchersOf(c)' = FetchersOf(c)]_vars

PrepareOnceWitness ==
    /\ prepResults["c1"].trues = 1
    /\ prepResults["c1"].last = "false"
    /\ Cardinality(FetchersOf("c1")) = 1

\* C10: every fetcher is discoverable by the cleaner.  Whenever a fetcher runs
\* for connection c, and whenever c's unacked list is not empty, the queue name
\* is a member of c's queues set; the LPush on the same key changes nothing.
Discoverable ==
    /\ \A f \in DOMAIN fetchers : QueueName \in SMembers(queuesKey[fetchers[f].conn])
    /\ \A c \in Conns : unacked[c] # <<>> => QueueName \in SMembers(queuesKey[c])

DiscoverableWitness ==
    /\ Len(fetchers) = 1
    /\ storeErrs = 0
    /\ unacked["c1"] # <<>>

\* C5: FIFO per queue.  With one connection consuming through at most one
\* consumer worker (and no reject or repatriation), the payloads passed to
\* Consume, in call order, are the payloads in the order Publish succeeded:
\* the delivered sequence is always a prefix of the published sequence.
FifoSingleWorker ==
    Len(workers) <= 1 => IsPrefix(DeliveredPayloads, published)

FifoWitness ==
    /\ Len(workers) = 1
    /\ Len(delivered) = 3
    /\ DeliveredPayloads = published
    /\ published[1] # published[2]

\* C6: fan-out delivers each item exactly once.  Every payload the fetcher
\* moved to unacked is, counted with multiplicity, in exactly one place:
\* passed to Consume of one worker, received by one worker that is about to
\* call Consume, in the channel buffer, or still in the fetcher's hand.  So
\* no payload is handed to two workers, and once the pipeline is drained the
\* per-consumer delivery counts add up to the number of payloads fetched.
FanOutExactlyOnce ==
    /\ \A x \in Payloads :
          Count(unacked["c1"], x)
             = Count(DeliveredPayloads, x) + HeldByWorkers(x) + HeldByFetchers(x)
               + (IF deliveryChan["c1"] = NoChan THEN 0 ELSE Buffered(deliveryChan["c1"], x))
    /\ Len(delivered) <= Len(unacked["c1"])

FanOutWitness ==
    /\ Len(workers) = 2
    /\ Len(delivered) = 3
    /\ Len(unacked["c1"]) = 3
    /\ \E i, j \in DOMAIN delivered : delivered[i][1] = 1 /\ delivered[j][1] = 2

\* C7 (as claimed): backpressure.  One consumer whose handler blocks on its first
\* delivery, the fetcher blocked on the full channel of capacity B: the ready
\* list holds N - B - 1 payloads, N the number published.
FetcherBlocked ==
    /\ Len(workers) = 1
    /\ workers[1].pc = "handler"
    /\ Len(delivered) = 1
    /\ Len(fetchers) = 1
    /\ fetchers[1].pc = "send"
    /\ Len(chans[deliveryChan["c1"]].buf) = chans[deliveryChan["c1"]].cap

BackpressureAsClaimed ==
    FetcherBlocked =>
        Len(ready) = Len(published) - chans[deliveryChan["c1"]].cap - 1

\* C7 (amended): in that state the fetcher itself holds one more payload, which
\* it has already moved to unacked, so the ready list holds N - B - 2; and the
\* fetcher stays blocked for as long as the handler does not return and no
\* second consumer is added.
BackpressureAmended ==
    /\ [](FetcherBlocked =>
            Len(ready) = Len(published) - chans[deliveryChan["c1"]].cap - 2)
    /\ [][FetcherBlocked /\ Len(workers') = 1 /\ workers'[1].pc = "handler"
            => FetcherBlocked']_vars

BackpressureWitness ==
    /\ FetcherBlocked
    /\ Len(published) = 3
    /\ chans[deliveryChan["c1"]].cap = 1
    /\ Len(ready) = 0

\* C11: repatriation keeps order.  The payloads a ReturnUnackedDeliveries call
\* pushed to ready are popped from ready again in the order in which it pushed
\* them, whatever is published meanwhile; those of them still in the ready list
\* lie there with the earlier pushed nearer the right end; and the call pushes
\* them in the order in which they were taken from ready (oldest first, the
\* unacked list from right to left) when nobody else changes the unacked list.
RepatriationOrder ==
    \A r \in Cleaners :
        /\ \A i \in DOMAIN rud[r].retaken : rud[r].retaken[i] = i
        /\ \A j, k \in DOMAIN rud[r].at :
              (j < k /\ rud[r].at[k] # Gone) =>
                  (rud[r].at[j] < rud[r].at[k]
                   /\ (rud[r].at[j] # Gone =>
                          ready[Len(ready) - rud[r].at[j]] = rud[r].moved[j]))
        /\ ~rud[r].touched => IsPrefix(rud[r].moved, Reverse(rud[r].snap))

RepatriationWitness ==
    \E r \in Cleaners :
        /\ rud[r].err = "nil"
        /\ ~rud[r].touched
        /\ rud[r].snap = <<"b", "a">>
        /\ rud[r].moved = <<"a", "b">>
        /\ rud[r].retaken = <<1, 2>>
        /\ unacked["c2"] = <<"b", "a">>

\* C12: the fetcher survives store errors.  A fetcher is always either at its
\* pop-push or at its send, never out of its loop; and the step in which its
\* pop-push fails (the only store call that fails in this specification)
\* changes neither the ready list nor an unacked list, puts nothing on a
\* delivery channel, and leaves the fetcher at the pop-push, which it attempts
\* again.
FetcherSurvives ==
    /\ [](\A f \in DOMAIN fetchers : fetchers[f].pc \in {"pop", "send"})
    /\ [][storeErrs' > storeErrs =>
            /\ ready' = ready
            /\ unacked' = unacked
            /\ chans' = chans
            /\ fetchers' = fetchers
            /\ \E f \in DOMAIN fetchers : fetchers[f].pc = "pop"]_vars

\* the fetcher's first pop-push failed, and its second moved a payload
FetcherSurvivesWitness ==
    /\ storeErrs = 1
    /\ Len(fetchers) = 1
    /\ fetchers[1].pc = "send"
    /\ Len(unacked["c1"]) = 1
    /\ Len(delivered) = 0
    /\ chans[deliveryChan["c1"]].buf = <<>>
    /\ \A w \in DOMAIN workers : workers[w].val = NoVal

\* C13: the consistency check of ReturnUnackedDeliveries.  When the call
\* re-reads the length of the unacked list after its moves and the list is not
\* empty, it returns an error and the count 0; it returns no error only when
\* the list is empty at that read, and then the count it read at first.
ConsistencyCheck ==
    [][\A r \in Cleaners :
          (rud[r].pc = "check" /\ rud'[r].pc = "done") =>
              /\ unacked[rud[r].conn] # <<>> => (rud'[r].err # "nil" /\ rud'[r].ret = 0)
              /\ rud'[r].err = "nil" =>
                    (unacked[rud[r].conn] = <<>> /\ rud'[r].ret = rud[r].count)]_vars

\* a fetcher added a payload during the call, which found it at its final read
ConsistencyCheckWitness ==
    \E r \in Cleaners :
        /\ rud[r].pc = "done"
        /\ rud[r].err = "consistency"
        /\ rud[r].ret = 0
        /\ Len(rud[r].moved) = 1
        /\ unacked[rud[r].conn] # <<>>
        /\ FetchersOf(rud[r].conn) # {}
        /\ storeErrs = 0

\* C14: Purge.  Purge returns true exactly when its store call did not fail and
\* the ready list held a payload; it leaves the unacked lists as they are and,
\* when its store call did not fail, the ready list empty.  As long as nothing
\* is published after such a Purge the ready list stays empty, so that
\* ReadyCount is 0; and a payload published after a Purge is in the ready list.
PurgeEmpties ==
    /\ []((result.op = "Purge" /\ ~result.err /\ result.pubs = Len(published))
            => ready = <<>>)
    /\ []((result.op = "Purge" /\ result.ok) => ~result.err)
    /\ [][(result' # result /\ result'.op = "Purge") =>
            /\ result'.ok = (~result'.err /\ ready # <<>>)
            /\ ~result'.err => ready' = <<>>
            /\ unacked' = unacked]_vars
    /\ [][(result.op = "Purge" /\ Len(published') > Len(published)) =>
            (ready' # <<>> /\ ready'[1] = published'[Len(published')])]_vars

\* a Purge of a ready list that held a payload, while the fetcher had moved
\* another to unacked; a payload published after it is in the ready list
PurgeWitness ==
    /\ result.op = "Purge"
    /\ result.ok
    /\ result.pubs = 2
    /\ Len(published) = 3
    /\ Len(unacked["c1"]) = 1
    /\ Len(ready) = 1

\* C15: the observability calls never surface errors and never write.  A step
\* in which ReadyCount, UnackedCount or GetConsumers returns changes no key of
\* the store; the call returns 0 (the empty list) when its store call failed,
\* and otherwise the length of the ready list, the length of the connection's
\* unacked list, the members of the consumers set; it never panics.
ObserversAreQuiet ==
    [][(result' # result /\ result'.op \in {"ReadyCount", "UnackedCount", "GetConsumers"})
        => /\ storeVars' = storeVars
           /\ procVars' = procVars
           /\ ~result'.panicked
           /\ result'.op = "ReadyCount" =>
                 result'.n = IF result'.err THEN 0 ELSE Len(ready)
           /\ result'.op = "UnackedCount" =>
                 result'.n = IF result'.err THEN 0 ELSE Len(unacked["c1"])
           /\ result'.op = "GetConsumers" =>
                 result'.names = IF result'.err THEN {} ELSE consumersKey["c1"]]_vars

\* ReadyCount's store call failed while the ready list held two payloads
ObserversWitness ==
    /\ result.op = "ReadyCount"
    /\ result.err
    /\ result.n = 0
    /\ Len(ready) = 2
    /\ Len(unacked["c1"]) = 1
    /\ consumersKey["c1"] # {}

\* C16: AddConsumer without PrepareConsumption is fatal and has no effect.  A
\* queue without a delivery channel has no worker and no name in its consumers
\* set; an AddConsumer call on it panics, and it does so without a store call and
\* without starting a worker; AddConsumer panics in no other case; and when its
\* store call fails it returns the empty name, adds no name and starts no worker.
AddConsumerNeedsPrepare ==
    /\ [](\A c \in Conns :
            deliveryChan[c] = NoChan =>
                (consumersKey[c] = {} /\ \A w \in DOMAIN workers : workers[w].conn # c))
    /\ [][(result' # result /\ result'.op = "AddConsumer") =>
            /\ result'.panicked = (deliveryChan["c1"] = NoChan)
            /\ result'.panicked =>
                  (storeVars' = storeVars /\ workers' = workers /\ storeErrs' = storeErrs
                   /\ result'.name = <<>>)
            /\ result'.err =>
                  (result'.name = <<>> /\ workers' = workers
                   /\ consumersKey' = consumersKey)
            /\ (~result'.err /\ ~result'.panicked) =>
                  (result'.name \in consumersKey'["c1"] /\ Len(workers') = Len(workers) + 1)]_vars

\* AddConsumer panicked on a queue that a PrepareConsumption call left
\* unprepared
AddConsumerPanicWitness ==
    /\ result.op = "AddConsumer"
    /\ result.panicked
    /\ deliveryChan["c1"] = NoChan
    /\ prepResults["c1"].last = "false"
    /\ workers = <<>>
    /\ consumersKey["c1"] = {}

\* C17: the consumers set matches the workers.  After any AddConsumer,
\* RemoveConsumer and RemoveAllConsumers calls on a prepared queue, every name
\* in the consumers set of a connection is the name of a running worker of that
\* connection, which receives from the queue's delivery channel; so there are
\* at least as many running workers as names in the set.
WorkersOf(c) == {w \in DOMAIN workers : workers[w].conn = c}
ConsumersHaveWorkers ==
    \A c \in Conns :
        /\ \A name \in consumersKey[c] :
              \E w \in WorkersOf(c) :
                  /\ workers[w].name = name
                  /\ workers[w].pc \in {"start", "recv", "call", "handler"}
                  /\ workers[w].pc # "start" => workers[w].ch = deliveryChan[c]
        /\ Cardinality(WorkersOf(c)) >= Cardinality(consumersKey[c])

\* one name left in the set after a RemoveConsumer, two workers started under
\* it (the same suffix twice), and the removed consumer's worker still running
ConsumersWitness ==
    /\ Cardinality(consumersKey["c1"]) = 1
    /\ Cardinality(WorkersOf("c1")) = 3
    /\ result.op = "RemoveConsumer"
    /\ result.ok
    /\ \A w \in WorkersOf("c1") : workers[w].pc = "recv"

\* C20: a failed PrepareConsumption leaves the queue unprepared.  The step in
\* which PrepareConsumption returns false because its SAdd failed makes no
\* channel, installs none and starts no fetcher; as long as no call has got
\* past its SAdd the queue has no delivery channel and no fetcher, so that a
\* later PrepareConsumption passes its check and AddConsumer panics.
FailedPrepareLeavesUnprepared ==
    /\ [](\A c \in Conns :
            (prepResults[c].trues = 0 /\ \A t \in Threads : prep[<<c, t>>].pc # "lpush")
                => (deliveryChan[c] = NoChan /\ FetchersOf(c) = {}))
    /\ [][\A c \in Conns, t \in Threads :
            (prep[<<c, t>>].pc = "sadd" /\ prep'[<<c, t>>].pc = "idle") =>
                /\ prepResults'[c].last = "false"
                /\ prepResults'[c].trues = prepResults[c].trues
                /\ deliveryChan' = deliveryChan
                /\ chans' = chans
                /\ fetchers' = fetchers
                /\ queuesKey' = queuesKey]_vars

\* the first PrepareConsumption failed at its SAdd (no other store call has
\* been made) and the thread has called again: the second call is at its SAdd
FailedPrepareWitness ==
    /\ prepResults["c1"].last = "false"
    /\ prepResults["c1"].trues = 0
    /\ storeErrs = 1
    /\ result = NoResult
    /\ prep[<<"c1", "t1">>].pc = "sadd"
    /\ deliveryChan["c1"] = NoChan

\* C18 (as claimed): ReturnUnackedDeliveries always terminates: a call that has
\* read the length of the unacked list returns a count or an error, also when
\* somebody else shrinks the list after that read.
RudTerminates ==
    \A r \in Cleaners : (rud[r].pc \in {"move", "check"}) ~> (rud[r].pc = "done")

\* C19 (as claimed): at most one fetcher under concurrent preparation: when two
\* threads call PrepareConsumption on one queue handle, at most one call returns
\* true, one delivery channel is made, one fetcher is started, and the workers
\* read the channel the fetcher sends to.
OneFetcherUnderRace ==
    /\ prepResults["c1"].trues <= 1
    /\ Len(chans) <= 1
    /\ Cardinality(FetchersOf("c1")) <= 1
    /\ \A w \in DOMAIN workers :
          workers[w].pc # "start" => workers[w].ch = deliveryChan["c1"]

====
